---- MODULE Spec2Model ----
(***************************************************************************)
(* A model of the two decision engines of mail-agent:                      *)
(*   src/src/classifier.py  EmailClassifier  (label matching)              *)
(*   src/src/cleaner.py     EmailCleaner     (retention decision)          *)
(* Python str values are TLA+ strings handled as character sequences       *)
(* (Len, SubSeq, \o), so that lower(), "in", endswith(), split() and the   *)
(* header parsing are computed character by character.                     *)
(***************************************************************************)
EXTENDS Integers, Sequences, FiniteSets, TLC

VARIABLES
    email,          \* the email_data dict handed to the engine
    label_configs,  \* EmailClassifier.label_configs
    config,         \* EmailCleaner.config
    now,            \* datetime.now(), in days
    op,             \* the method called last ("none" before any call)
    arg,            \* the extra argument of that call (0 when it has none)
    result,         \* what the call returned
    provider,       \* the kind of email_provider ("none" outside a run)
    server,         \* the messages the mail store holds, in listing order
    pc,             \* the statement process_emails / clean is at
    emails,         \* the list the current for loop iterates
    idx,            \* the position of that loop in emails
    labels,         \* the labels of the current email in process_emails
    cleaned_count,  \* cleaned_count of clean
    log             \* the calls made on the collaborators, in order

engine_vars == <<email, label_configs, config, now, op, arg, result>>

cycle_vars == <<provider, server, pc, emails, idx, labels, cleaned_count, log>>

vars == <<engine_vars, cycle_vars>>

(***************************************************************************)
(* Python str operations                                                   *)
(***************************************************************************)
UpperChars == "ABCDEFGHIJKLMNOPQRSTUVWXYZ"
LowerChars == "abcdefghijklmnopqrstuvwxyz"

\* s[i], 1-based
CharAt(s, i) == SubSeq(s, i, i)

\* the lower-case letter of every upper-case letter
ToLower ==
    [c \in {CharAt(UpperChars, i) : i \in 1..Len(UpperChars)} |->
        CharAt(LowerChars, CHOOSE i \in 1..Len(UpperChars) : CharAt(UpperChars, i) = c)]

\* str.lower() of one character
LowerChar(c) == IF c \in DOMAIN ToLower THEN ToLower[c] ELSE c

RECURSIVE Lower(_)
\* str.lower()
Lower(s) ==
    IF Len(s) = 0 THEN ""
    ELSE LowerChar(CharAt(s, 1)) \o Lower(SubSeq(s, 2, Len(s)))

\* needle in hay
Contains(hay, needle) ==
    \E i \in 0..(Len(hay) - Len(needle)) :
        SubSeq(hay, i + 1, i + Len(needle)) = needle

\* s.endswith(suffix)
EndsWith(s, suffix) ==
    /\ Len(suffix) <= Len(s)
    /\ SubSeq(s, Len(s) - Len(suffix) + 1, Len(s)) = suffix

\* s.startswith(prefix)
StartsWith(s, prefix) ==
    /\ Len(prefix) <= Len(s)
    /\ SubSeq(s, 1, Len(prefix)) = prefix

\* the positions of character c in s
Positions(s, c) == {i \in 1..Len(s) : CharAt(s, i) = c}

\* s.count(c)
Count(s, c) == Cardinality(Positions(s, c))

\* the least element of a non-empty set of integers
Min(S) == CHOOSE i \in S : \A j \in S : i <= j

\* the greatest element of a non-empty set of integers
Max(S) == CHOOSE i \in S : \A j \in S : j <= i

\* s.strip() for headers whose only whitespace is the space character
Strip(s) ==
    LET solid == {i \in 1..Len(s) : CharAt(s, i) # " "}
    IN  IF solid = {} THEN "" ELSE SubSeq(s, Min(solid), Max(solid))

\* s.split('@'), as a sequence of strings
RECURSIVE SplitAt(_)
SplitAt(s) ==
    IF Positions(s, "@") = {} THEN <<s>>
    ELSE LET i == Min(Positions(s, "@"))
         IN  <<SubSeq(s, 1, i - 1)>> \o SplitAt(SubSeq(s, i + 1, Len(s)))

(***************************************************************************)
(* email.utils.parseaddr, as the classifier calls it, for headers of the   *)
(* forms the mail store delivers: a bare address, or a display name        *)
(* followed by an angle-bracket address. Words are letters and dots, one   *)
(* space between the words of a name. Returns <<name, address>>.           *)
(***************************************************************************)
parseaddr(from_field) ==
    IF Positions(from_field, "<") # {}
    THEN LET lt    == Min(Positions(from_field, "<"))
             name  == Strip(SubSeq(from_field, 1, lt - 1))
             rest  == SubSeq(from_field, lt + 1, Len(from_field))
             inner == IF Positions(rest, ">") = {} THEN rest
                      ELSE SubSeq(rest, 1, Min(Positions(rest, ">")) - 1)
         IN  IF \/ Count(inner, "@") > 1
                \/ EndsWith(inner, "@")
                \/ StartsWith(inner, "@")
             THEN <<name, "">>
             ELSE <<name, inner>>
    ELSE LET inner == Strip(from_field)
         IN  IF Count(inner, "@") > 1 \/ EndsWith(inner, "@")
             THEN <<"", "">>
             ELSE <<"", inner>>

(***************************************************************************)
(* EmailClassifier                                                         *)
(***************************************************************************)
\* _extract_email
_extract_email(from_field) == parseaddr(from_field)[2]

\* _extract_name
_extract_name(from_field) == parseaddr(from_field)[1]

\* EmailClassifier._extract_domain: email.split('@')[1], "" on IndexError
EmailClassifier_extract_domain(from_field) ==
    LET parts == SplitAt(parseaddr(from_field)[2])
    IN  IF Len(parts) >= 2 THEN parts[2] ELSE ""

\* the test 'k in criteria' without 'and criteria[k]': an empty list counts
\* as a criterion
Given_when_present(criteria, k) == k \in DOMAIN criteria

\* dict.get-style truth test "'k' in criteria and criteria['k']"
Given(criteria, k) == k \in DOMAIN criteria /\ Len(criteria[k]) > 0

\* any(...) over a list: some position of the list
Indices(list) == 1..Len(list)

\* _check_alternate_from_criteria comparing the display name as written
_check_alternate_from_criteria_case_sensitive(email_data, criteria) ==
    IF Given(criteria, "from_name")
    THEN LET sender_name == _extract_name(email_data.from)
             Hit(name) == Contains(sender_name, name)
         IN  (\E i \in Indices(criteria.from_name) : Hit(criteria.from_name[i]))
    ELSE FALSE

\* _check_alternate_from_criteria
_check_alternate_from_criteria(email_data, criteria) ==
    IF Given(criteria, "from_name")
    THEN LET sender_name == _extract_name(email_data.from)
             Hit(name) == Contains(Lower(sender_name), Lower(name))
         IN  IF (\E i \in Indices(criteria.from_name) : Hit(criteria.from_name[i])) THEN TRUE ELSE FALSE
    ELSE FALSE

\* the 'from' block with from_name checked on its own when from is not given
from_fails_name_on_its_own(email_data, criteria) ==
    IF Given(criteria, "from")
    THEN LET sender_email == _extract_email(email_data.from)
             Same(from_addr) == Lower(sender_email) = Lower(from_addr)
         IN  IF ~ (\E i \in Indices(criteria.from) : Same(criteria.from[i]))
             THEN ~ _check_alternate_from_criteria(email_data, criteria)
             ELSE FALSE
    ELSE IF Given(criteria, "from_name")
    THEN ~ _check_alternate_from_criteria(email_data, criteria)
    ELSE FALSE

\* the 'from' block of _matches_criteria: TRUE when it returns False
from_fails(email_data, criteria) ==
    IF Given(criteria, "from")
    THEN LET sender_email == _extract_email(email_data.from)
             Same(from_addr) == Lower(sender_email) = Lower(from_addr)
         IN  IF ~ (\E i \in Indices(criteria.from) : Same(criteria.from[i]))
             THEN ~ _check_alternate_from_criteria(email_data, criteria)
             ELSE FALSE
    ELSE FALSE

\* the 'from_domain' block of _matches_criteria: TRUE when it returns False
from_domain_fails(email_data, criteria) ==
    IF Given(criteria, "from_domain")
    THEN LET sender_domain == EmailClassifier_extract_domain(email_data.from)
             Suffix(domain) == EndsWith(Lower(sender_domain), Lower(domain))
         IN  ~ (\E i \in Indices(criteria.from_domain) : Suffix(criteria.from_domain[i]))
    ELSE FALSE

\* the 'subject_contains' block with the keyword not lowercased
subject_fails_case_sensitive(email_data, criteria) ==
    IF Given(criteria, "subject_contains")
    THEN LET subject == Lower(email_data.subject)
             Hit(keyword) == Contains(subject, keyword)
         IN  ~ (\E i \in Indices(criteria.subject_contains) : Hit(criteria.subject_contains[i]))
    ELSE FALSE

\* the 'subject_contains' block of _matches_criteria
subject_fails(email_data, criteria) ==
    IF Given(criteria, "subject_contains")
    THEN LET subject == Lower(email_data.subject)
             Hit(keyword) == Contains(subject, Lower(keyword))
         IN  ~ (\E i \in Indices(criteria.subject_contains) : Hit(criteria.subject_contains[i]))
    ELSE FALSE

\* the 'body_contains' block of _matches_criteria
body_fails(email_data, criteria) ==
    IF Given(criteria, "body_contains")
    THEN LET body == Lower(email_data.body)
             Hit(keyword) == Contains(body, Lower(keyword))
         IN  ~ (\E i \in Indices(criteria.body_contains) : Hit(criteria.body_contains[i]))
    ELSE FALSE

\* _matches_criteria: four blocks in order, each returning False early
_matches_criteria(email_data, criteria) ==
    IF from_fails(email_data, criteria) THEN FALSE
    ELSE IF from_domain_fails(email_data, criteria) THEN FALSE
    ELSE IF subject_fails(email_data, criteria) THEN FALSE
    ELSE IF body_fails(email_data, criteria) THEN FALSE
    ELSE TRUE

RECURSIVE rule_based_loop(_, _, _)
\* the for loop of _rule_based_classify over the remaining rules
rule_based_loop(email_data, rules, applicable_labels) ==
    IF Len(rules) = 0 THEN applicable_labels
    ELSE rule_based_loop(
            email_data, Tail(rules),
            IF _matches_criteria(email_data, Head(rules).criteria)
            THEN Append(applicable_labels, Head(rules).name)
            ELSE applicable_labels)

\* _rule_based_classify with applicable_labels kept on the instance: the
\* labels of the classify call just before are still in the list
_rule_based_classify_keeps_labels(email_data, rules) ==
    rule_based_loop(email_data, rules, IF op = "classify" THEN result ELSE <<>>)

\* _rule_based_classify
_rule_based_classify(email_data, rules) ==
    rule_based_loop(email_data, rules, <<>>)

\* an LLM stage that suggests a label of its own
_dummy_llm_call_suggests(email_data) == <<"Spam">>

\* _dummy_llm_call
_dummy_llm_call(email_data) == <<>>

\* _llm_classify
_llm_classify(email_data) == _dummy_llm_call(email_data)

\* set(list)
SetOf(list) == {list[i] : i \in 1..Len(list)}

\* list(set): every order in which the elements of S can be listed once
ListsOf(S) ==
    {l \in [1..Cardinality(S) -> S] : \A x \in S : \E i \in DOMAIN l : l[i] = x}

\* classify returning the combined list without the set conversion
classify_keeps_duplicates(email_data, rules) ==
    {_rule_based_classify(email_data, rules) \o _llm_classify(email_data)}

\* classify: the lists list(set(rule_based_labels + llm_labels)) can be
classify(email_data, rules) ==
    LET rule_based_labels == _rule_based_classify(email_data, rules)
        llm_labels        == _llm_classify(email_data)
    IN  ListsOf(SetOf(rule_based_labels \o llm_labels))

(***************************************************************************)
(* EmailCleaner                                                            *)
(***************************************************************************)
\* config.get(k, default)
Get(d, k, default) == IF k \in DOMAIN d THEN d[k] ELSE default

\* re.search(r'<([^>]+)>', from_field): the positions of a '<' that is
\* followed by at least one character other than '>' and then by a '>'
AngleMatches(from_field) ==
    {i \in Positions(from_field, "<") :
        \E j \in Positions(from_field, ">") :
            /\ j > i + 1
            /\ \A k \in Positions(from_field, ">") : k > i => k >= j}

\* EmailCleaner._extract_domain: the text after the last '@' of the
\* angle-bracket group, or of the stripped header when there is no group
EmailCleaner_extract_domain(from_field) ==
    LET address ==
            IF AngleMatches(from_field) # {}
            THEN LET i == Min(AngleMatches(from_field))
                     j == Min({k \in Positions(from_field, ">") : k > i})
                 IN  SubSeq(from_field, i + 1, j - 1)
            ELSE Strip(from_field)
        parts == SplitAt(address)
    IN  parts[Len(parts)]

\* newsletter_keywords of _is_newsletter
newsletter_keywords ==
    <<"newsletter", "subscribe", "update", "digest", "weekly", "monthly">>

\* _is_newsletter looking for 'unsubscribe' in the body as written
_is_newsletter_body_case_sensitive(email_data, cfg) ==
    LET sender_domain      == EmailCleaner_extract_domain(email_data.from)
        newsletter_domains == Get(cfg, "newsletter_domains", <<>>)
        DomainHit(domain)  == Contains(Lower(sender_domain), Lower(domain))
        subject            == Lower(email_data.subject)
        KeywordHit(keyword) == Contains(subject, keyword)
    IN  IF (\E i \in Indices(newsletter_domains) : DomainHit(newsletter_domains[i])) THEN TRUE
        ELSE IF (\E i \in Indices(newsletter_keywords) : KeywordHit(newsletter_keywords[i])) THEN TRUE
        ELSE IF Contains(email_data.body, "unsubscribe") THEN TRUE
        ELSE FALSE

\* _is_newsletter: sender domain, then subject keywords, then the body
_is_newsletter(email_data, cfg) ==
    LET sender_domain      == EmailCleaner_extract_domain(email_data.from)
        newsletter_domains == Get(cfg, "newsletter_domains", <<>>)
        DomainHit(domain)  == Contains(Lower(sender_domain), Lower(domain))
        subject            == Lower(email_data.subject)
        KeywordHit(keyword) == Contains(subject, keyword)
    IN  IF (\E i \in Indices(newsletter_domains) : DomainHit(newsletter_domains[i])) THEN TRUE
        ELSE IF (\E i \in Indices(newsletter_keywords) : KeywordHit(newsletter_keywords[i])) THEN TRUE
        ELSE IF Contains(Lower(email_data.body), "unsubscribe") THEN TRUE
        ELSE FALSE

\* email.utils.parsedate_to_datetime on a date header. A header is a record
\* of its format, its calendar day and its zone text. Only the RFC 2822
\* form parses; without a zone, or with the zone -0000, the datetime is
\* naive, with any other zone it is timezone-aware. Anything else raises.
parsedate_to_datetime(date) ==
    IF date.format = "rfc2822"
    THEN [raised |-> FALSE, day |-> date.day,
          aware |-> date.zone \notin {"", "-0000"}]
    ELSE [raised |-> TRUE]

\* email_date < cutoff_date, cutoff_date being naive: comparing a
\* timezone-aware datetime with a naive one raises TypeError
datetime_lt(email_date, cutoff_day) ==
    IF email_date.aware
    THEN [raised |-> TRUE]
    ELSE [raised |-> FALSE, value |-> email_date.day < cutoff_day]

\* _is_too_old taking an email whose date does not parse for an old one
_is_too_old_unparsed_is_old(email_data, max_age_days, today) ==
    LET email_date == parsedate_to_datetime(email_data.date)
    IN  IF email_date.raised THEN TRUE
        ELSE LET cutoff_date == today - max_age_days
                 less        == datetime_lt(email_date, cutoff_date)
             IN  IF less.raised THEN FALSE ELSE less.value

\* _is_too_old: any exception in the try block gives False
_is_too_old(email_data, max_age_days, today) ==
    LET email_date == parsedate_to_datetime(email_data.date)
    IN  IF email_date.raised THEN FALSE
        ELSE LET cutoff_date == today - max_age_days
                 less        == datetime_lt(email_date, cutoff_date)
             IN  IF less.raised THEN FALSE ELSE less.value

\* x in list
InList(x, list) == \E i \in 1..Len(list) : list[i] = x

\* _is_read looking for the flag Seen without its backslash
_is_read_seen_without_backslash(email_data) ==
    IF "labels" \in DOMAIN email_data /\ ~ InList("UNREAD", email_data.labels)
    THEN TRUE
    ELSE IF "flags" \in DOMAIN email_data /\ InList("Seen", email_data.flags)
    THEN TRUE
    ELSE FALSE

\* _is_read: the Gmail check, then the IMAP check
_is_read(email_data) ==
    IF "labels" \in DOMAIN email_data /\ ~ InList("UNREAD", email_data.labels)
    THEN TRUE
    ELSE IF "flags" \in DOMAIN email_data /\ InList("\\Seen", email_data.flags)
    THEN TRUE
    ELSE FALSE

\* the truth value of config.get('delete_older_than'): None and 0 are false
older_than_truthy(cfg) ==
    "delete_older_than" \in DOMAIN cfg /\ cfg.delete_older_than # 0

\* _should_delete
_should_delete(email_data, cfg, today) ==
    IF Get(cfg, "delete_newsletters", FALSE) /\ _is_newsletter(email_data, cfg)
    THEN TRUE
    ELSE IF /\ older_than_truthy(cfg)
            /\ _is_too_old(email_data, cfg.delete_older_than, today)
    THEN TRUE
    ELSE IF Get(cfg, "delete_read", FALSE) /\ _is_read(email_data)
    THEN TRUE
    ELSE FALSE

\* _is_newsletter raising KeyError: it reads email['from'], then, when no
\* newsletter domain matched, email['subject'], then, when no keyword
\* matched, email['body']
_is_newsletter_raises(email_data, cfg) ==
    IF "from" \notin DOMAIN email_data THEN TRUE
    ELSE LET sender_domain      == EmailCleaner_extract_domain(email_data.from)
             newsletter_domains == Get(cfg, "newsletter_domains", <<>>)
             DomainHit(domain)  == Contains(Lower(sender_domain), Lower(domain))
         IN  IF (\E i \in Indices(newsletter_domains) : DomainHit(newsletter_domains[i])) THEN FALSE
             ELSE IF "subject" \notin DOMAIN email_data THEN TRUE
             ELSE IF (\E i \in Indices(newsletter_keywords) :
                        Contains(Lower(email_data.subject), newsletter_keywords[i])) THEN FALSE
             ELSE "body" \notin DOMAIN email_data

\* clean going on to delete_email whatever _should_delete answered
should_delete_call_ignored(email_data, cfg, today) ==
    IF Get(cfg, "delete_newsletters", FALSE) /\ _is_newsletter_raises(email_data, cfg)
    THEN [raised |-> TRUE, value |-> FALSE]
    ELSE [raised |-> FALSE, value |-> TRUE]

\* the call self._should_delete(email) as clean sees it: it raises when
\* _is_newsletter does (the other two checks cannot raise: _is_too_old has
\* its own try/except and _is_read tests for its keys), else it returns
should_delete_call(email_data, cfg, today) ==
    IF Get(cfg, "delete_newsletters", FALSE) /\ _is_newsletter_raises(email_data, cfg)
    THEN [raised |-> TRUE, value |-> FALSE]
    ELSE [raised |-> FALSE, value |-> _should_delete(email_data, cfg, today)]

\* clean counting every deletion it attempted
count_after_delete_attempted(count, deleted) == count + 1

\* clean, lines 43-44: cleaned_count += 1 only if delete_email returned true
count_after_delete(count, deleted) == IF deleted THEN count + 1 ELSE count

\* clean returning an error code from its except branch
clean_return_error_code(at, count) == IF at = "except" THEN -1 ELSE count

\* clean, lines 47 and 51: both the normal end and the except branch
\* return cleaned_count
clean_return(at, count) == count

\* the outcomes of email_provider.get_all_emails(): a MagicMock returns its
\* return_value or raises its side_effect; GmailProvider and ImapProvider
\* define no such method, so the attribute lookup raises AttributeError
get_all_emails(kind, mailbox) ==
    IF kind = "mock"
    THEN { [raised |-> FALSE, value |-> mailbox], [raised |-> TRUE, value |-> <<>>] }
    ELSE { [raised |-> TRUE, value |-> <<>>] }

\* the outcomes of email_provider.delete_email(email): GmailProvider and
\* ImapProvider catch every exception and return a bool; a MagicMock can
\* also raise
delete_email(kind) ==
    IF kind = "mock"
    THEN { [raised |-> FALSE, value |-> TRUE], [raised |-> FALSE, value |-> FALSE],
           [raised |-> TRUE, value |-> FALSE] }
    ELSE { [raised |-> FALSE, value |-> TRUE], [raised |-> FALSE, value |-> FALSE] }

\* a call noted in the log with its outcome
Call(name, id, outcome) ==
    [call |-> name, id |-> id, raised |-> outcome.raised, value |-> outcome.value]

(***************************************************************************)
(* GmailProvider and ImapProvider. The mail store is a list of messages,   *)
(* each a record of its id, its From, Subject and Date headers, its body,  *)
(* whether it is unread (Gmail label UNREAD, IMAP flag \Seen not set) and  *)
(* the list of labels added to it.                                         *)
(***************************************************************************)
\* get_email_provider: a GmailProvider for provider type 'gmail', an
\* ImapProvider for anything else
ProviderKinds == { "gmail", "imap" }

\* msg['labelIds'] of a Gmail message
labelIds(msg) ==
    <<"INBOX">> \o (IF msg.unread THEN <<"UNREAD">> ELSE <<>>) \o msg.marks

\* the email_data dict get_unprocessed_emails builds for a message: only
\* GmailProvider adds 'labels'; neither provider adds 'flags' ('to' and
\* 'raw_message', which no engine reads, are left out)
email_data_of(kind, msg) ==
    IF kind = "gmail"
    THEN [id |-> msg.id, subject |-> msg.subject, from |-> msg.from,
          date |-> msg.date, body |-> msg.body, labels |-> labelIds(msg)]
    ELSE [id |-> msg.id, subject |-> msg.subject, from |-> msg.from,
          date |-> msg.date, body |-> msg.body]

IsUnread(msg) == msg.unread

\* the outcomes of get_unprocessed_emails: the messages matching
\* q='is:unread' (Gmail) or UNSEEN (IMAP), or [] after any exception
get_unprocessed_emails(kind, mailbox) ==
    LET found == SelectSeq(mailbox, IsUnread)
    IN  { [i \in DOMAIN found |-> email_data_of(kind, found[i])], <<>> }

\* the position of the message with this id
IndexOf(mailbox, id) == CHOOSE i \in DOMAIN mailbox : mailbox[i].id = id

\* list with the entries of more it does not hold yet appended
AddAll(list, more) ==
    LET Missing(x) == ~ InList(x, list)
    IN  list \o SelectSeq(more, Missing)

\* the outcomes of apply_labels(email_data, labels), each the returned bool
\* and the mail store afterwards. Gmail: addLabelIds. IMAP: of the labels
\* only the flag names are stored, and of those \Seen is the one flag the
\* mail store of this module keeps
apply_labels(kind, mailbox, id, label_list) ==
    LET i == IndexOf(mailbox, id)
        stored ==
            IF kind = "gmail"
            THEN [mailbox EXCEPT ![i].marks = AddAll(@, label_list)]
            ELSE IF \E k \in Indices(label_list) : Lower(label_list[k]) = "seen"
            THEN [mailbox EXCEPT ![i].unread = FALSE]
            ELSE mailbox
    IN  { [value |-> TRUE, server |-> stored], [value |-> FALSE, server |-> mailbox] }

\* the outcomes of mark_as_processed(email_data): Gmail adds the label
\* Processed, IMAP sets the flag \Seen; False after any exception
mark_as_processed(kind, mailbox, id) ==
    LET i == IndexOf(mailbox, id)
        stored ==
            IF kind = "gmail"
            THEN [mailbox EXCEPT ![i].marks = AddAll(@, <<"Processed">>)]
            ELSE [mailbox EXCEPT ![i].unread = FALSE]
    IN  { [value |-> TRUE, server |-> stored], [value |-> FALSE, server |-> mailbox] }

\* the lookup of lines 68-71 taking a rule without 'notify' for a
\* notifying one
label_config_notifies_by_default(rules, label) ==
    \E i \in Indices(rules) :
        /\ rules[i].name = label
        /\ \A j \in 1..(i - 1) : rules[j].name # label
        /\ Get(rules[i], "notify", TRUE)

\* main.py lines 68-71: the first rule of config['labels'] with this name,
\* and whether it asks for a notification
label_config_notifies(rules, label) ==
    \E i \in Indices(rules) :
        /\ rules[i].name = label
        /\ \A j \in 1..(i - 1) : rules[j].name # label
        /\ Get(rules[i], "notify", FALSE)

\* main.py lines 67-73: the labels of the list, in order, for which
\* notifier.send_notification(email) is called
notified_labels(rules, label_list) ==
    LET Notifies(label) == label_config_notifies(rules, label)
    IN  SelectSeq(label_list, Notifies)

(***************************************************************************)
(* Inputs of the label matcher                                             *)
(***************************************************************************)
\* the longest label_configs list drawn from RuleUniverse
MaxRules == 2

\* From headers: the senders of tests/test_classifier.py, the same in other
\* letter case, with a display name, in a subdomain, in a domain that only
\* ends with the letters of company.com, without '@', with two '@', empty
FromHeaders ==
    { "boss@company.com", "BOSS@Company.COM", "Big Boss <boss@company.com>",
      "The Boss <other@example.com>", "colleague@company.com",
      "a@sub.company.com", "a@notcompany.com", "friend@example.com",
      "nobody", "a@b@c", "" }

Subjects == { "Urgent meeting", "Hello" }

Bodies == { "We need to meet ASAP", "Just saying hello" }

ClassifierEmails == [from : FromHeaders, subject : Subjects, body : Bodies]

\* a dict holding the keys of opt that carry a value (<<v>>), and no key for <<>>
DictOf(opt) == [k \in {k \in DOMAIN opt : Len(opt[k]) = 1} |-> opt[k][1]]

\* every criterion absent, an empty list, one entry, or two entries of which
\* the second differs from the email's text in letter case only
CriteriaSet ==
    { DictOf(opt) : opt \in
        [ from : { <<>>, << <<>> >>, << <<"boss@company.com">> >>,
                   << <<"friend@example.org", "Boss@Company.com">> >> },
          from_name : { <<>>, << <<>> >>, << <<"smith", "BOSS">> >> },
          from_domain : { <<>>, << <<"company.com">> >>,
                          << <<"example.org", "Example.COM">> >> },
          subject_contains : { <<>>, << <<"urgent">> >>,
                               << <<"invoice", "HELLO">> >> },
          body_contains : { <<>>, << <<"asap">> >> } ] }

\* label_configs of tests/test_classifier.py setUp
ImportantRule ==
    [ name |-> "Important", notify |-> TRUE,
      criteria |-> [from |-> <<"boss@company.com">>,
                    subject_contains |-> <<"urgent">>] ]

WorkRule ==
    [ name |-> "Work", notify |-> FALSE,
      criteria |-> [from_domain |-> <<"company.com">>] ]

TestLabelConfigs == <<ImportantRule, WorkRule>>

\* the rules the longer rule lists are made of: the two of the tests, a
\* second rule named Work, a rule with a from_name rescue, a rule without
\* criteria
RuleUniverse ==
    { ImportantRule, WorkRule,
      [ name |-> "Work", notify |-> TRUE,
        criteria |-> [subject_contains |-> <<"team", "meeting">>] ],
      [ name |-> "VIP", notify |-> TRUE,
        criteria |-> [from |-> <<"boss@company.com">>,
                      from_name |-> <<"boss">>] ],
      [ name |-> "All", notify |-> FALSE, criteria |-> DictOf([from |-> <<>>]) ] }

RuleLists == UNION { [1..n -> RuleUniverse] : n \in 0..MaxRules }

SingleRuleLists ==
    { << [name |-> "Rule", notify |-> FALSE, criteria |-> c] >> : c \in CriteriaSet }

\* criteria in which every field is absent or the empty list, but for
\* subject_contains, which can also hold a keyword
EmptyCriteriaSet ==
    { DictOf(opt) : opt \in
        [ from : { <<>>, << <<>> >> },
          from_name : { <<>>, << <<>> >> },
          from_domain : { <<>>, << <<>> >> },
          subject_contains : { <<>>, << <<>> >>, << <<"urgent">> >> },
          body_contains : { <<>>, << <<>> >> } ] }

EmptyRuleLists ==
    { << [name |-> "Any", notify |-> FALSE, criteria |-> c] >> : c \in EmptyCriteriaSet }

\* cleaning config of tests/test_cleaner.py setUp
TestCleaningConfig ==
    [ delete_newsletters |-> TRUE,
      newsletter_domains |-> <<"newsletter.com", "marketing.com">>,
      delete_older_than |-> 30,
      delete_read |-> TRUE ]

\* the day datetime.now() falls on
Today == 100

\* no run of process_emails or clean is under way
NoRun ==
    /\ provider = "none"
    /\ server = <<>>
    /\ pc = "idle"
    /\ emails = <<>>
    /\ idx = 0
    /\ labels = <<>>
    /\ cleaned_count = 0
    /\ log = <<>>

(***************************************************************************)
(* The label matcher as a state machine: an EmailClassifier is constructed *)
(* with label_configs, then its methods are called on an email.            *)
(***************************************************************************)
InitClassifier ==
    /\ email \in ClassifierEmails
    /\ label_configs \in RuleLists \cup SingleRuleLists \cup EmptyRuleLists
    /\ config = TestCleaningConfig
    /\ now = Today
    /\ op = "none"
    /\ arg = 0
    /\ result = 0
    /\ NoRun

\* classifier.classify(email)
Classify ==
    /\ \E r \in classify(email, label_configs) : result' = r
    /\ op' = "classify"
    /\ arg' = 0
    /\ UNCHANGED <<email, label_configs, config, now, cycle_vars>>

\* classifier._rule_based_classify(email)
RuleBasedClassify ==
    /\ result' = _rule_based_classify(email, label_configs)
    /\ op' = "_rule_based_classify"
    /\ arg' = 0
    /\ UNCHANGED <<email, label_configs, config, now, cycle_vars>>

\* classifier._matches_criteria(email, label_configs[i]['criteria'])
MatchesCriteria ==
    \E i \in 1..Len(label_configs) :
        /\ result' = _matches_criteria(email, label_configs[i].criteria)
        /\ op' = "_matches_criteria"
        /\ arg' = i
        /\ UNCHANGED <<email, label_configs, config, now, cycle_vars>>

\* classifier._check_alternate_from_criteria(email, label_configs[i]['criteria'])
CheckAlternateFromCriteria ==
    \E i \in 1..Len(label_configs) :
        /\ result' = _check_alternate_from_criteria(email, label_configs[i].criteria)
        /\ op' = "_check_alternate_from_criteria"
        /\ arg' = i
        /\ UNCHANGED <<email, label_configs, config, now, cycle_vars>>

NextClassifier ==
    \/ Classify
    \/ RuleBasedClassify
    \/ MatchesCriteria
    \/ CheckAlternateFromCriteria

SpecClassifier == InitClassifier /\ [][NextClassifier]_vars

(***************************************************************************)
(* Inputs of the retention evaluator                                       *)
(***************************************************************************)
\* senders: the newsletter domain of the tests, a display name with a
\* subdomain of the second newsletter domain in other letter case, and the
\* generic sender of the tests
CleanerFromHeaders ==
    { "info@newsletter.com", "News <deals@mail.Marketing.COM>",
      "sender@example.com" }

CleanerSubjects == { "Hello", "Your Weekly newsletter" }

CleanerBodies == { "Just saying hello", "Click here to Unsubscribe" }

\* a date header of the RFC 2822 form, age days before Today
DateHeader(age, zone) == [format |-> "rfc2822", day |-> Today - age, zone |-> zone]

\* 40, 30 and 10 days old without a zone, 40 days old with a zone, and a
\* header that is no date
DateHeaders ==
    { DateHeader(40, ""), DateHeader(30, ""), DateHeader(10, ""),
      DateHeader(40, "+0000"), [format |-> "garbage"] }

\* the read-state fields an email dict can carry: Gmail labels, IMAP flags,
\* both, or neither
ReadStates ==
    { [labels |-> <<"INBOX", "CATEGORY_PERSONAL">>],
      [labels |-> <<"INBOX", "UNREAD", "CATEGORY_PERSONAL">>],
      [flags |-> <<"\\Seen", "\\Recent">>],
      [flags |-> <<"\\Recent">>],
      [labels |-> <<"INBOX", "UNREAD">>, flags |-> <<"\\Seen">>],
      DictOf([labels |-> <<>>]) }

\* the dict with the keys of both a and b (a's value where both have one)
Merge(a, b) ==
    [k \in DOMAIN a \cup DOMAIN b |-> IF k \in DOMAIN a THEN a[k] ELSE b[k]]

CleanerEmails ==
    { Merge(e, r) :
        e \in [from : CleanerFromHeaders, subject : CleanerSubjects,
               body : CleanerBodies, date : DateHeaders],
        r \in ReadStates }

\* cleaning configs: every key absent or set; delete_older_than also 0
CleaningConfigs ==
    { DictOf(opt) : opt \in
        [ delete_newsletters : { <<>>, <<TRUE>> },
          newsletter_domains : { <<>>, << <<"newsletter.com", "marketing.com">> >> },
          delete_older_than : { <<>>, <<0>>, <<30>> },
          delete_read : { <<FALSE>>, <<TRUE>> } ] }

\* the max_age_days _is_too_old is called with
MaxAgeDays == {0, 30}

(***************************************************************************)
(* The retention evaluator as a state machine: an EmailCleaner is          *)
(* constructed with config, then its methods are called on an email.       *)
(***************************************************************************)
InitCleaner ==
    /\ email \in CleanerEmails
    /\ config \in CleaningConfigs
    /\ label_configs = TestLabelConfigs
    /\ now = Today
    /\ op = "none"
    /\ arg = 0
    /\ result = 0
    /\ NoRun

\* cleaner._should_delete(email)
ShouldDelete ==
    /\ result' = _should_delete(email, config, now)
    /\ op' = "_should_delete"
    /\ arg' = 0
    /\ UNCHANGED <<email, label_configs, config, now, cycle_vars>>

\* cleaner._is_newsletter(email)
IsNewsletter ==
    /\ result' = _is_newsletter(email, config)
    /\ op' = "_is_newsletter"
    /\ arg' = 0
    /\ UNCHANGED <<email, label_configs, config, now, cycle_vars>>

\* cleaner._is_too_old(email, max_age_days)
IsTooOld ==
    \E max_age_days \in MaxAgeDays :
        /\ result' = _is_too_old(email, max_age_days, now)
        /\ op' = "_is_too_old"
        /\ arg' = max_age_days
        /\ UNCHANGED <<email, label_configs, config, now, cycle_vars>>

\* cleaner._is_read(email)
IsRead ==
    /\ result' = _is_read(email)
    /\ op' = "_is_read"
    /\ arg' = 0
    /\ UNCHANGED <<email, label_configs, config, now, cycle_vars>>

NextCleaner ==
    \/ ShouldDelete
    \/ IsNewsletter
    \/ IsTooOld
    \/ IsRead

SpecCleaner == InitCleaner /\ [][NextCleaner]_vars

(***************************************************************************)
(* The clean batch: cleaner.clean(email_provider) against a mock provider, *)
(* as test_clean calls it.                                                 *)
(***************************************************************************)
\* the mailbox of test_clean (its mocked parsedate_to_datetime gives naive
\* datetimes 40 days back for 'Old email' and 10 days back for the others)
TestMailbox ==
    << [id |-> "1", subject |-> "Newsletter", from |-> "info@newsletter.com",
        body |-> "Here are the latest news", date |-> DateHeader(10, ""),
        labels |-> <<"INBOX">>],
       [id |-> "2", subject |-> "Old email", from |-> "sender@example.com",
        body |-> "This is an old email", date |-> DateHeader(40, ""),
        labels |-> <<"INBOX", "UNREAD">>],
       [id |-> "3", subject |-> "Read email", from |-> "sender@example.com",
        body |-> "This is a read email", date |-> DateHeader(10, ""),
        labels |-> <<"INBOX">>],
       [id |-> "4", subject |-> "Keep me", from |-> "important@example.com",
        body |-> "This email should be kept", date |-> DateHeader(10, ""),
        labels |-> <<"INBOX", "UNREAD">>] >>

\* further emails a provider can return: an unread newsletter, an old unread
\* email, a read and an unread email whose date is no date, and a read
\* email without a 'body' key
MailboxEmails ==
    { [id |-> "5", subject |-> "Weekly digest", from |-> "News <news@marketing.com>",
       body |-> "Top stories", date |-> DateHeader(10, ""),
       labels |-> <<"INBOX", "UNREAD">>],
      [id |-> "6", subject |-> "Old email", from |-> "sender@example.com",
       body |-> "This is an old email", date |-> DateHeader(40, ""),
       labels |-> <<"INBOX", "UNREAD">>],
      [id |-> "7", subject |-> "Hello", from |-> "friend@example.com",
       body |-> "Just saying hello", date |-> [format |-> "garbage"],
       labels |-> <<"INBOX">>],
      [id |-> "8", subject |-> "Hello", from |-> "friend@example.com",
       body |-> "Just saying hello", date |-> [format |-> "garbage"],
       labels |-> <<"INBOX", "UNREAD">>],
      [id |-> "9", subject |-> "Hello", from |-> "friend@example.com",
       date |-> DateHeader(10, ""), labels |-> <<"INBOX">>] }

\* the longest mailbox drawn from MailboxEmails
MaxMailbox == 3

\* lists of distinct emails
Mailboxes ==
    { m \in UNION { [1..n -> MailboxEmails] : n \in 0..MaxMailbox } :
        \A i, j \in DOMAIN m : i # j => m[i] # m[j] }
    \cup { TestMailbox }

\* the policy of test_clean, and policies with one check switched on
CleanPolicies ==
    { TestCleaningConfig,
      [delete_read |-> TRUE],
      [delete_older_than |-> 30],
      [delete_newsletters |-> TRUE] }

\* no engine call has been given an email yet
NoEmail == [id |-> "none"]

\* test_clean: cleaner = EmailCleaner(config); cleaner.clean(email_provider)
\* is entered, cleaned_count = 0 (line 34)
InitClean ==
    /\ email = NoEmail
    /\ config \in CleanPolicies
    /\ label_configs = TestLabelConfigs
    /\ now = Today
    /\ op = "none"
    /\ arg = 0
    /\ result = 0
    /\ provider = "mock"
    /\ server \in Mailboxes
    /\ pc = "clean"
    /\ emails = <<>>
    /\ idx = 0
    /\ labels = <<>>
    /\ cleaned_count = 0
    /\ log = <<>>

\* line 38: emails = email_provider.get_all_emails(); a raise goes to the
\* except branch of line 49
CleanGetAllEmails ==
    /\ pc = "clean"
    /\ \E outcome \in get_all_emails(provider, server) :
        /\ log' = Append(log, [call |-> "get_all_emails", id |-> "", raised |-> outcome.raised,
                               value |-> FALSE])
        /\ IF outcome.raised
           THEN pc' = "except" /\ UNCHANGED <<emails, idx>>
           ELSE pc' = "loop" /\ emails' = outcome.value /\ idx' = 0
    /\ UNCHANGED <<engine_vars, provider, server, labels, cleaned_count>>

\* lines 41-42: the next email of the list is handed to _should_delete
CleanShouldDelete ==
    /\ pc = "loop"
    /\ idx < Len(emails)
    /\ LET outcome == should_delete_call(emails[idx + 1], config, now)
       IN  /\ email' = emails[idx + 1]
           /\ log' = Append(log, Call("_should_delete", emails[idx + 1].id, outcome))
           /\ IF outcome.raised THEN pc' = "except" /\ idx' = idx
              ELSE IF outcome.value THEN pc' = "delete" /\ idx' = idx
              ELSE pc' = "loop" /\ idx' = idx + 1
    /\ UNCHANGED <<label_configs, config, now, op, arg, result,
                   provider, server, emails, labels, cleaned_count>>

\* lines 43-45: email_provider.delete_email(email) and the count
CleanDeleteEmail ==
    /\ pc = "delete"
    /\ \E outcome \in delete_email(provider) :
        /\ log' = Append(log, Call("delete_email", emails[idx + 1].id, outcome))
        /\ IF outcome.raised
           THEN pc' = "except" /\ UNCHANGED <<idx, cleaned_count>>
           ELSE /\ pc' = "loop"
                /\ idx' = idx + 1
                /\ cleaned_count' = count_after_delete(cleaned_count, outcome.value)
    /\ UNCHANGED <<engine_vars, provider, server, emails, labels>>

\* lines 47 and 51: clean returns, after the last email or from the except
\* branch
CleanReturn ==
    /\ \/ pc = "loop" /\ idx = Len(emails)
       \/ pc = "except"
    /\ result' = clean_return(pc, cleaned_count)
    /\ op' = "clean"
    /\ arg' = 0
    /\ pc' = "done"
    /\ UNCHANGED <<email, label_configs, config, now,
                   provider, server, emails, idx, labels, cleaned_count, log>>

NextClean ==
    \/ CleanGetAllEmails
    \/ CleanShouldDelete
    \/ CleanDeleteEmail
    \/ CleanReturn

SpecClean == InitClean /\ [][NextClean]_vars

(***************************************************************************)
(* The run cycle: main calls process_emails(config) at startup and then    *)
(* from the scheduler, against the provider get_email_provider returns.    *)
(***************************************************************************)
\* the messages a mail store is made of: one from the boss with an urgent
\* subject, one from a friend, one newsletter
Messages ==
    { [id |-> "1", from |-> "boss@company.com", subject |-> "Urgent: report",
       body |-> "Please send the report", date |-> DateHeader(10, "")],
      [id |-> "2", from |-> "friend@example.com", subject |-> "Hello",
       body |-> "Just saying hello", date |-> DateHeader(10, "")],
      [id |-> "3", from |-> "info@newsletter.com", subject |-> "Newsletter",
       body |-> "Here are the latest news", date |-> DateHeader(40, "")] }

\* a message as the mail store holds it at startup: the newsletter has
\* been read, the others are unread; no label added yet
StoredMessages ==
    { Merge(m, [unread |-> m.id # "3", marks |-> <<>>]) : m \in Messages }

\* the longest mail store
MaxServer == 2

\* mail stores: lists of messages with distinct ids
Servers ==
    { m \in UNION { [1..n -> StoredMessages] : n \in 0..MaxServer } :
        \A i, j \in DOMAIN m : i # j => m[i].id # m[j].id }

\* config['labels'] with distinct names: the two rules of the tests; two
\* notifying rules; a rule without 'notify' that matches every email and a
\* notifying one; no rule
CycleRuleLists ==
    { TestLabelConfigs,
      << [ name |-> "VIP", notify |-> TRUE,
           criteria |-> [from |-> <<"boss@company.com">>] ],
         [ name |-> "Team", notify |-> TRUE,
           criteria |-> [from_domain |-> <<"company.com">>] ] >>,
      << [ name |-> "All", criteria |-> DictOf([from |-> <<>>]) ],
         ImportantRule >>,
      <<>> }

\* main has loaded the config; process_emails has not been called yet
Init ==
    /\ email = NoEmail
    /\ label_configs \in CycleRuleLists
    /\ config = TestCleaningConfig
    /\ now = Today
    /\ op = "none"
    /\ arg = 0
    /\ result = 0
    /\ provider \in ProviderKinds
    /\ server \in Servers
    /\ pc = "idle"
    /\ emails = <<>>
    /\ idx = 0
    /\ labels = <<>>
    /\ cleaned_count = 0
    /\ log = <<>>

\* process_emails giving up on an email whose labels could not be applied
after_apply_labels_checked(applied) == IF applied THEN "notify" ELSE "classify"

\* lines 63-67: what apply_labels returned is dropped; the notification
\* loop follows in any case
after_apply_labels(applied) == "notify"

\* process_emails with the call of cleaner.clean inside the loop
after_email_clean_in_loop(i, list) == "clean"

\* where process_emails goes after email number i of list: to the next
\* email, or past the loop to cleaner.clean (line 79)
after_email(i, list) == IF i < Len(list) THEN "classify" ELSE "clean"

\* lines 42-51: process_emails is called (at startup, or by the scheduler
\* after the previous call returned) and stops in pdb.set_trace(); the
\* operator continues, or quits, which raises BdbQuit through
\* process_emails into main, where it is logged and the program ends
ProcessEmails ==
    /\ pc \in {"idle", "done"}
    /\ \E command \in {"continue", "quit"} :
        pc' = IF command = "continue" THEN "get_unprocessed_emails" ELSE "stopped"
    /\ log' = <<>>
    /\ emails' = <<>>
    /\ idx' = 0
    /\ labels' = <<>>
    /\ UNCHANGED <<engine_vars, provider, server, cleaned_count>>

\* lines 54-55: emails = email_provider.get_unprocessed_emails()
GetUnprocessedEmails ==
    /\ pc = "get_unprocessed_emails"
    /\ \E found \in get_unprocessed_emails(provider, server) :
        /\ emails' = found
        /\ pc' = after_email(0, found)
    /\ idx' = 0
    /\ cleaned_count' = 0
    /\ log' = Append(log, [call |-> "get_unprocessed_emails", id |-> "", raised |-> FALSE,
                           value |-> FALSE])
    /\ UNCHANGED <<engine_vars, provider, server, labels>>

\* lines 57-59: labels = classifier.classify(email)
ClassifyEmail ==
    /\ pc = "classify"
    /\ email' = emails[idx + 1]
    /\ \E r \in classify(emails[idx + 1], label_configs) :
        /\ labels' = r
        /\ result' = r
        /\ pc' = IF r # <<>> THEN "apply_labels" ELSE "notify"
        /\ log' = Append(log, [call |-> "classify", id |-> emails[idx + 1].id,
                               raised |-> FALSE, value |-> r])
    /\ op' = "classify"
    /\ arg' = 0
    /\ UNCHANGED <<label_configs, config, now, provider, server, emails, idx, cleaned_count>>

\* lines 62-64: email_provider.apply_labels(email, labels), reached only
\* with a non-empty list
ApplyLabels ==
    /\ pc = "apply_labels"
    /\ \E outcome \in apply_labels(provider, server, email.id, labels) :
        /\ server' = outcome.server
        /\ log' = Append(log, [call |-> "apply_labels", id |-> email.id, raised |-> FALSE,
                               value |-> outcome.value])
        /\ pc' = after_apply_labels(outcome.value)
    /\ UNCHANGED <<engine_vars, provider, emails, idx, labels, cleaned_count>>

\* lines 67-73: the loop over labels; notifier.send_notification(email) is
\* called for each label whose rule has notify set, and what it returns
\* (True or False, it catches its exceptions) is dropped
SendNotifications ==
    /\ pc = "notify"
    /\ LET due == notified_labels(label_configs, labels)
       IN  \E sent \in [DOMAIN due -> BOOLEAN] :
            log' = log \o [i \in DOMAIN due |->
                             [call |-> "send_notification", id |-> email.id, raised |-> FALSE,
                              value |-> sent[i], label |-> due[i]]]
    /\ pc' = "mark_as_processed"
    /\ UNCHANGED <<engine_vars, provider, server, emails, idx, labels, cleaned_count>>

\* line 76: email_provider.mark_as_processed(email), then the next email
MarkAsProcessed ==
    /\ pc = "mark_as_processed"
    /\ \E outcome \in mark_as_processed(provider, server, email.id) :
        /\ server' = outcome.server
        /\ log' = Append(log, [call |-> "mark_as_processed", id |-> email.id, raised |-> FALSE,
                               value |-> outcome.value])
    /\ idx' = idx + 1
    /\ pc' = after_email(idx + 1, emails)
    /\ UNCHANGED <<engine_vars, provider, emails, labels, cleaned_count>>

\* CleanShouldDelete and CleanDeleteEmail are no steps of the run cycle:
\* get_all_emails raises for both providers, so clean never gets to its loop
Next ==
    \/ ProcessEmails
    \/ GetUnprocessedEmails
    \/ ClassifyEmail
    \/ ApplyLabels
    \/ SendNotifications
    \/ MarkAsProcessed
    \/ CleanGetAllEmails
    \/ CleanReturn

Spec == Init /\ [][Next]_vars

(***************************************************************************)
(* One EmailClassifier and one EmailCleaner called again and again, on     *)
(* emails presented in any order, while the clock moves.                   *)
(***************************************************************************)
\* the emails GmailProvider builds for the three messages
EngineEmails == { email_data_of("gmail", m) : m \in StoredMessages }

\* the number of engine calls followed
MaxCalls == 3

\* the days the clock moves on in one step
ClockStep == 25

InitEngines ==
    /\ email = NoEmail
    /\ label_configs \in {TestLabelConfigs, <<ImportantRule>>}
    /\ config \in {TestCleaningConfig, [delete_older_than |-> 30]}
    /\ now = Today
    /\ op = "none"
    /\ arg = 0
    /\ result = 0
    /\ NoRun

\* classifier.classify(e)
EngineClassify ==
    /\ Len(log) < MaxCalls
    /\ \E e \in EngineEmails :
        /\ email' = e
        /\ \E r \in classify(e, label_configs) :
            /\ result' = r
            /\ log' = Append(log, [call |-> "classify", email |-> e, now |-> now, value |-> r])
    /\ op' = "classify"
    /\ arg' = 0
    /\ UNCHANGED <<label_configs, config, now,
                   provider, server, pc, emails, idx, labels, cleaned_count>>

\* cleaner._should_delete(e)
EngineShouldDelete ==
    /\ Len(log) < MaxCalls
    /\ \E e \in EngineEmails :
        /\ email' = e
        /\ result' = _should_delete(e, config, now)
        /\ log' = Append(log, [call |-> "_should_delete", email |-> e, now |-> now,
                               value |-> _should_delete(e, config, now)])
    /\ op' = "_should_delete"
    /\ arg' = 0
    /\ UNCHANGED <<label_configs, config, now,
                   provider, server, pc, emails, idx, labels, cleaned_count>>

\* time passes between two calls: datetime.now() of a later call is later
ClockMoves ==
    /\ now = Today
    /\ now' = now + ClockStep
    /\ UNCHANGED <<email, label_configs, config, op, arg, result, cycle_vars>>

NextEngines ==
    \/ EngineClassify
    \/ EngineShouldDelete
    \/ ClockMoves

SpecEngines == InitEngines /\ [][NextEngines]_vars

(***************************************************************************)
(* The two _extract_domain methods on the same From headers                *)
(***************************************************************************)
\* the part of an address before its first '@'
ExtractLocals == { "boss", "john.doe", "" }

\* what follows it: one domain, a domain in other letter case, nothing,
\* two '@'
ExtractDomains == { "@company.com", "@Sub.Company.COM", "", "@b@c" }

BareAddresses == { l \o d : l \in ExtractLocals, d \in ExtractDomains }

\* bare addresses, and the same in angle brackets after a display name
ExtractHeaders ==
    BareAddresses \cup
    { n \o " <" \o b \o ">" : n \in {"John Doe", "Boss", "X Y Z"}, b \in BareAddresses }

InitExtract ==
    /\ email \in [from : ExtractHeaders, subject : {"Hello"}, body : {"Just saying hello"}]
    /\ label_configs = TestLabelConfigs
    /\ config = TestCleaningConfig
    /\ now = Today
    /\ op = "none"
    /\ arg = 0
    /\ result = 0
    /\ NoRun

\* classifier._extract_domain(email['from'])
ClassifierExtractDomain ==
    /\ result' = EmailClassifier_extract_domain(email.from)
    /\ op' = "EmailClassifier._extract_domain"
    /\ arg' = 0
    /\ UNCHANGED <<email, label_configs, config, now, cycle_vars>>

\* cleaner._extract_domain(email['from'])
CleanerExtractDomain ==
    /\ result' = EmailCleaner_extract_domain(email.from)
    /\ op' = "EmailCleaner._extract_domain"
    /\ arg' = 0
    /\ UNCHANGED <<email, label_configs, config, now, cycle_vars>>

NextExtract ==
    \/ ClassifierExtractDomain
    \/ CleanerExtractDomain

SpecExtract == InitExtract /\ [][NextExtract]_vars

\* C20: the retention evaluator obtains the same sender domain as the label
\* matcher, and both give the empty string for a header without '@'.
C20_SameDomainExtraction ==
    op \in {"EmailClassifier._extract_domain", "EmailCleaner._extract_domain"} =>
        /\ result = EmailClassifier_extract_domain(email.from)
        /\ result = EmailCleaner_extract_domain(email.from)
        /\ Positions(email.from, "@") = {} => result = ""

(***************************************************************************)
(* Properties of the label matcher                                         *)
(***************************************************************************)
\* the criteria of the rule the last _matches_criteria call was given
CalledCriteria == label_configs[arg].criteria

\* a and b are the same text but for the case of their letters
SameIgnoringCase(a, b) ==
    /\ Len(a) = Len(b)
    /\ \A i \in 1..Len(a) : LowerChar(CharAt(a, i)) = LowerChar(CharAt(b, i))

\* part occurs in text, the case of letters ignored
OccursIgnoringCase(part, text) ==
    \E k \in 0..(Len(text) - Len(part)) :
        \A i \in 1..Len(part) :
            LowerChar(CharAt(text, k + i)) = LowerChar(CharAt(part, i))

\* text ends with tail, the case of letters ignored
EndsIgnoringCase(text, tail) ==
    /\ Len(tail) <= Len(text)
    /\ \A i \in 1..Len(tail) :
        LowerChar(CharAt(text, Len(text) - Len(tail) + i)) = LowerChar(CharAt(tail, i))

\* criterion k is present in c
Present(c, k) == k \in DOMAIN c

\* criterion k is present in c and not the empty list
PresentNonEmpty(c, k) == k \in DOMAIN c /\ c[k] # <<>>

\* the sender address equals one of the entries of c.from
AddressListed(e, c) ==
    \E a \in SetOf(c.from) : SameIgnoringCase(_extract_email(e.from), a)

\* from_name is configured and one of its entries occurs in the display name
NameRescues(e, c) ==
    /\ PresentNonEmpty(c, "from_name")
    /\ \E n \in SetOf(c.from_name) : OccursIgnoringCase(n, _extract_name(e.from))

FromSatisfied(e, c) ==
    PresentNonEmpty(c, "from") => AddressListed(e, c) \/ NameRescues(e, c)

DomainSatisfied(e, c) ==
    PresentNonEmpty(c, "from_domain") =>
        \E d \in SetOf(c.from_domain) :
            EndsIgnoringCase(EmailClassifier_extract_domain(e.from), d)

SubjectSatisfied(e, c) ==
    PresentNonEmpty(c, "subject_contains") =>
        \E k \in SetOf(c.subject_contains) : OccursIgnoringCase(k, e.subject)

BodySatisfied(e, c) ==
    PresentNonEmpty(c, "body_contains") =>
        \E k \in SetOf(c.body_contains) : OccursIgnoringCase(k, e.body)

\* the criteria after from and its from_name fallback
RestSatisfied(e, c) ==
    DomainSatisfied(e, c) /\ SubjectSatisfied(e, c) /\ BodySatisfied(e, c)

\* the names of the rules whose criteria the email matches
MatchingNames ==
    { label_configs[i].name :
        i \in {j \in 1..Len(label_configs) :
                _matches_criteria(email, label_configs[j].criteria)} }

\* C1: classify returns exactly the names of the rules whose criteria the
\* email matches; the LLM stage adds no label.
C1_ClassifyIsMatchingNames ==
    op = "classify" => SetOf(result) = MatchingNames

\* classify returned a label for an email that one rule matches and another
\* does not
C1_Witness ==
    /\ op = "classify"
    /\ Len(label_configs) = 2
    /\ Len(result) = 1
    /\ \E i \in 1..2 : ~ _matches_criteria(email, label_configs[i].criteria)

\* C2: the result of classify holds no name twice, and every name in it is
\* the name of a configured rule.
C2_ClassifyNoDuplicatesSubset ==
    op = "classify" =>
        /\ \A i, j \in 1..Len(result) : i # j => result[i] # result[j]
        /\ \A i \in 1..Len(result) :
            \E k \in 1..Len(label_configs) : result[i] = label_configs[k].name

\* classify was called with two matching rules of the same name
C2_Witness ==
    /\ op = "classify"
    /\ Len(label_configs) = 2
    /\ label_configs[1].name = label_configs[2].name
    /\ label_configs[1] # label_configs[2]
    /\ \A i \in 1..2 : _matches_criteria(email, label_configs[i].criteria)
    /\ Len(result) = 1

\* C3: _matches_criteria is true exactly when every present, non-empty
\* criterion is satisfied (from with its from_name fallback, from_domain,
\* subject_contains, body_contains), each case-insensitively and by any one
\* entry; the rule of the tests with from and subject_contains needs both;
\* an email satisfying no rule gets no label.
C3_MatchesIsConjunction ==
    /\ op = "_matches_criteria" =>
        result = ( /\ FromSatisfied(email, CalledCriteria)
                   /\ DomainSatisfied(email, CalledCriteria)
                   /\ SubjectSatisfied(email, CalledCriteria)
                   /\ BodySatisfied(email, CalledCriteria) )
    /\ (op = "_matches_criteria" /\ label_configs[arg] = ImportantRule) =>
        result = ( /\ \/ SameIgnoringCase(_extract_email(email.from), "boss@company.com")
                      \/ NameRescues(email, ImportantRule.criteria)
                   /\ OccursIgnoringCase("urgent", email.subject) )
    /\ ( /\ op \in {"classify", "_rule_based_classify"}
         /\ \A i \in 1..Len(label_configs) :
              ~ ( /\ FromSatisfied(email, label_configs[i].criteria)
                  /\ RestSatisfied(email, label_configs[i].criteria) ) ) =>
        result = <<>>

\* the rule of the tests matched an email whose sender and subject differ
\* from the configured entries in letter case only
C3_Witness ==
    /\ op = "_matches_criteria"
    /\ label_configs[arg] = ImportantRule
    /\ email.from = "BOSS@Company.COM"
    /\ email.subject = "Urgent meeting"
    /\ result = TRUE

\* C4: a rule with only from_domain = {company.com} matches a@sub.company.com
\* and does not match a@notcompany.com.
C4_DomainSuffixRule ==
    (op = "_matches_criteria" /\ CalledCriteria = WorkRule.criteria) =>
        /\ email.from = "a@sub.company.com" => result = TRUE
        /\ email.from = "a@notcompany.com" => result = FALSE

\* C5 as stated: with criteria.from present and the sender address equal to
\* none of its entries, the rule fails unless from_name rescues it, and then
\* the remaining criteria decide.
C5_FromPresentNeedsRescue ==
    ( /\ op = "_matches_criteria"
      /\ Present(CalledCriteria, "from")
      /\ ~ AddressListed(email, CalledCriteria) ) =>
        result = ( /\ NameRescues(email, CalledCriteria)
                   /\ RestSatisfied(email, CalledCriteria) )

\* C5 amended: the same, for criteria.from present and not the empty list.
C5_FromNonEmptyNeedsRescue ==
    ( /\ op = "_matches_criteria"
      /\ PresentNonEmpty(CalledCriteria, "from")
      /\ ~ AddressListed(email, CalledCriteria) ) =>
        result = ( /\ NameRescues(email, CalledCriteria)
                   /\ RestSatisfied(email, CalledCriteria) )

\* a rule whose from entries the sender address is not among matched through
\* the display name, with another criterion also configured
C5_Witness ==
    /\ op = "_matches_criteria"
    /\ PresentNonEmpty(CalledCriteria, "from")
    /\ ~ AddressListed(email, CalledCriteria)
    /\ NameRescues(email, CalledCriteria)
    /\ PresentNonEmpty(CalledCriteria, "subject_contains")
    /\ result = TRUE

\* the dict d without the key k
WithoutKey(d, k) == [x \in DOMAIN d \ {k} |-> d[x]]

\* C16: with from absent or empty, _matches_criteria gives the same result
\* with and without a from_name field, which is what the other criteria
\* alone give.
C16_FromNameAloneHasNoEffect ==
    (op = "_matches_criteria" /\ ~ PresentNonEmpty(CalledCriteria, "from")) =>
        /\ result = _matches_criteria(email, WithoutKey(CalledCriteria, "from_name"))
        /\ result = RestSatisfied(email, CalledCriteria)

\* a rule with from_name and without from matched an email whose display
\* name holds none of the from_name entries
C16_Witness ==
    /\ op = "_matches_criteria"
    /\ ~ Present(CalledCriteria, "from")
    /\ PresentNonEmpty(CalledCriteria, "from_name")
    /\ ~ NameRescues(email, CalledCriteria)
    /\ result = TRUE

\* the criteria without the fields that are the empty list
WithoutEmpty(c) == [k \in {x \in DOMAIN c : c[x] # <<>>} |-> c[k]]

\* every field of the criteria is absent or the empty list
AllEmpty(c) == \A k \in DOMAIN c : c[k] = <<>>

\* C22: _matches_criteria answers for criteria as it answers for the same
\* criteria with the empty lists taken out, and answers true when every
\* field is absent or empty; classify then returns the name of such a rule.
C22_EmptyCriteriaMatchEverything ==
    /\ op = "_matches_criteria" =>
        /\ result = _matches_criteria(email, WithoutEmpty(CalledCriteria))
        /\ AllEmpty(CalledCriteria) => result = TRUE
    /\ op = "classify" =>
        \A i \in Indices(label_configs) :
            AllEmpty(label_configs[i].criteria) => label_configs[i].name \in SetOf(result)

\* _matches_criteria answered true for criteria whose five fields are all
\* given as empty lists
C22_Witness ==
    /\ op = "_matches_criteria"
    /\ DOMAIN CalledCriteria =
          {"from", "from_name", "from_domain", "subject_contains", "body_contains"}
    /\ AllEmpty(CalledCriteria)
    /\ result = TRUE

(***************************************************************************)
(* Properties of the retention evaluator                                   *)
(***************************************************************************)
\* C6: _should_delete is true exactly when delete_newsletters is true and
\* the email is a newsletter, or delete_older_than is set (0 included) and
\* the email is too old, or delete_read is true and the email is read.
C6_ShouldDeleteIsDisjunction ==
    op = "_should_delete" =>
        result =
            ( \/ /\ "delete_newsletters" \in DOMAIN config
                 /\ config.delete_newsletters
                 /\ _is_newsletter(email, config)
              \/ /\ "delete_older_than" \in DOMAIN config
                 /\ _is_too_old(email, config.delete_older_than, now)
              \/ /\ "delete_read" \in DOMAIN config
                 /\ config.delete_read
                 /\ _is_read(email) )

\* the six keywords the claim lists
ClaimedKeywords ==
    {"newsletter", "subscribe", "update", "digest", "weekly", "monthly"}

\* the sender domain contains a configured newsletter domain
NewsletterDomainHit ==
    /\ "newsletter_domains" \in DOMAIN config
    /\ \E d \in SetOf(config.newsletter_domains) :
        OccursIgnoringCase(d, EmailCleaner_extract_domain(email.from))

\* the subject contains one of the keywords
NewsletterSubjectHit ==
    \E k \in ClaimedKeywords : OccursIgnoringCase(k, email.subject)

\* C7: _is_newsletter is true exactly when the sender domain contains a
\* configured newsletter domain, or the subject one of the six keywords, or
\* the body 'unsubscribe', each in any letter case.
C7_IsNewsletterIsDisjunction ==
    op = "_is_newsletter" =>
        result = ( \/ NewsletterDomainHit
                   \/ NewsletterSubjectHit
                   \/ OccursIgnoringCase("unsubscribe", email.body) )

\* _is_newsletter was true for a body with 'Unsubscribe' and neither a
\* domain nor a subject match
C7_Witness ==
    /\ op = "_is_newsletter"
    /\ email.body = "Click here to Unsubscribe"
    /\ ~ NewsletterDomainHit
    /\ ~ NewsletterSubjectHit
    /\ result = TRUE

\* C8: for a date header that parses, with or without a zone, _is_too_old
\* is true exactly when the email's day is strictly before now minus
\* max_age_days.
C8_IsTooOldIsStrictlyEarlier ==
    (op = "_is_too_old" /\ email.date.format = "rfc2822") =>
        result = (email.date.day < now - arg)

\* C9: for an email carrying a label set, whatever else it carries,
\* _is_read is true exactly when the label set does not hold UNREAD.
C9_LabelsDecideRead ==
    (op = "_is_read" /\ "labels" \in DOMAIN email) =>
        result = ("UNREAD" \notin SetOf(email.labels))

\* C10: with a flag set and no label set, _is_read is true exactly when the
\* flags hold \Seen; with neither it is false, and _should_delete is then
\* decided by the newsletter and the age checks alone.
C10_FlagsDecideRead ==
    /\ (op = "_is_read" /\ "labels" \notin DOMAIN email /\ "flags" \in DOMAIN email) =>
        result = ("\\Seen" \in SetOf(email.flags))
    /\ (op = "_is_read" /\ "labels" \notin DOMAIN email /\ "flags" \notin DOMAIN email) =>
        result = FALSE
    /\ ( /\ op = "_should_delete"
         /\ "labels" \notin DOMAIN email
         /\ "flags" \notin DOMAIN email ) =>
        result =
            ( \/ /\ Get(config, "delete_newsletters", FALSE)
                 /\ _is_newsletter(email, config)
              \/ /\ older_than_truthy(config)
                 /\ _is_too_old(email, config.delete_older_than, now) )

\* _is_read was true for an email with flags holding \Seen and no labels
C10_Witness ==
    /\ op = "_is_read"
    /\ "labels" \notin DOMAIN email
    /\ "flags" \in DOMAIN email
    /\ "\\Seen" \in SetOf(email.flags)
    /\ result = TRUE

(***************************************************************************)
(* Properties of the clean batch                                           *)
(***************************************************************************)
EntriesOfCall(name) == {k \in DOMAIN log : log[k].call = name}
IsShouldDelete(c) == c.call = "_should_delete"
IsDelete(c) == c.call = "delete_email"
IsSuccessfulDelete(c) == c.call = "delete_email" /\ ~ c.raised /\ c.value
Ids(list) == [i \in DOMAIN list |-> list[i].id]
NoCallRaised == \A k \in DOMAIN log : ~ log[k].raised
GetAllEmailsFailed == \E k \in DOMAIN log : log[k].call = "get_all_emails" /\ log[k].raised
GetAllEmailsReturned == \E k \in DOMAIN log : log[k].call = "get_all_emails" /\ ~ log[k].raised
ShouldBeDeleted(e) == _should_delete(e, config, now)

\* C11: when clean has returned and no call raised, delete_email was called
\* for exactly the emails of the mailbox whose _should_delete is true, in
\* mailbox order, and the return value is the number of those calls that
\* returned true; on the mailbox and policy of test_clean the calls are for
\* emails 1, 2, 3 and the count is 3 when all three succeed.
C11_CleanDeletesExactlyMatches ==
    (pc = "done" /\ NoCallRaised) =>
        /\ Ids(SelectSeq(log, IsDelete)) = Ids(SelectSeq(server, ShouldBeDeleted))
        /\ result = Len(SelectSeq(log, IsSuccessfulDelete))
        /\ (server = TestMailbox /\ config = TestCleaningConfig) =>
            /\ Ids(SelectSeq(log, IsDelete)) = <<"1", "2", "3">>
            /\ (\A k \in DOMAIN log : IsDelete(log[k]) => log[k].value) => result = 3

C11_Witness ==
    /\ pc = "done"
    /\ NoCallRaised
    /\ server = TestMailbox
    /\ config = TestCleaningConfig
    /\ Len(SelectSeq(log, IsDelete)) = 3
    /\ result = 3

\* C12: when clean has returned after get_all_emails succeeded, every email
\* of the mailbox was handed to _should_delete, and delete_email was called
\* for each one it answered true for.
C12_FailureDoesNotAbortBatch ==
    (pc = "done" /\ GetAllEmailsReturned) =>
        \A i \in DOMAIN server :
            \E k \in DOMAIN log :
                /\ IsShouldDelete(log[k])
                /\ log[k].id = server[i].id
                /\ (~ log[k].raised /\ log[k].value) =>
                        \E d \in DOMAIN log : IsDelete(log[d]) /\ log[d].id = server[i].id

\* C13: once get_all_emails has raised, clean calls neither _should_delete
\* nor delete_email, goes through its except branch and returns 0.
C13_EnumerationFailureReturnsZero ==
    GetAllEmailsFailed =>
        /\ Len(log) = 1
        /\ pc \in {"except", "done"}
        /\ cleaned_count = 0
        /\ pc = "done" => (op = "clean" /\ result = 0)

C13_Witness ==
    /\ GetAllEmailsFailed
    /\ pc = "done"
    /\ server = TestMailbox
    /\ config = TestCleaningConfig
    /\ result = 0

EmailOf(id) == CHOOSE e \in {emails[i] : i \in DOMAIN emails} : e.id = id
Unparsable(e) == parsedate_to_datetime(e.date).raised
NextId(id) == LET i == CHOOSE n \in DOMAIN emails : emails[n].id = id
              IN  IF i < Len(emails) THEN emails[i + 1].id ELSE "end"

\* C15: for an email whose date does not parse, _is_too_old is false, the
\* _should_delete call of the batch does not raise and answers what the
\* newsletter and read checks give, and the batch goes on: to the deletion
\* of that email when the answer is true, else to the next email.
C15_UnparsableDateNotTooOld ==
    \A k \in DOMAIN log :
        (IsShouldDelete(log[k]) /\ Unparsable(EmailOf(log[k].id))) =>
            LET e == EmailOf(log[k].id)
            IN  /\ \A max_age_days \in MaxAgeDays : ~ _is_too_old(e, max_age_days, now)
                /\ ~ log[k].raised
                /\ log[k].value =
                      (\/ Get(config, "delete_newsletters", FALSE) /\ _is_newsletter(e, config)
                       \/ Get(config, "delete_read", FALSE) /\ _is_read(e))
                /\ IF k < Len(log)
                   THEN IF log[k].value
                        THEN IsDelete(log[k + 1]) /\ log[k + 1].id = e.id
                        ELSE IsShouldDelete(log[k + 1]) /\ log[k + 1].id = NextId(e.id)
                   ELSE IF log[k].value THEN pc = "delete"
                        ELSE \/ pc = "loop"
                             \/ pc = "done" /\ NextId(e.id) = "end"

C15_Witness ==
    /\ pc = "done"
    /\ older_than_truthy(config)
    /\ \E k \in DOMAIN log :
        /\ IsShouldDelete(log[k])
        /\ Unparsable(EmailOf(log[k].id))
        /\ log[k].value
        /\ \E j \in DOMAIN log : j > k /\ IsShouldDelete(log[j])
\* the position in the list clean walks of the email with this id
PositionOf(id) == CHOOSE n \in DOMAIN emails : emails[n].id = id

\* C21: the delete_email calls of a clean pass follow the order of the list
\* get_all_emails returned, with at most one call per email; each comes
\* directly after the _should_delete call for the same email, which
\* answered true for an email _should_delete is true for; a _should_delete
\* call comes directly after get_all_emails, after a _should_delete call
\* that answered false, or after a delete_email call that has returned; and
\* cleaned_count never exceeds the number of delete_email calls made.
C21_DeletionsSequentialInOrder ==
    /\ \A d1, d2 \in EntriesOfCall("delete_email") :
        d1 < d2 => PositionOf(log[d1].id) < PositionOf(log[d2].id)
    /\ \A d \in EntriesOfCall("delete_email") :
        /\ d > 1
        /\ IsShouldDelete(log[d - 1])
        /\ log[d - 1].id = log[d].id
        /\ ~ log[d - 1].raised /\ log[d - 1].value
        /\ _should_delete(emails[PositionOf(log[d].id)], config, now)
    /\ \A k \in EntriesOfCall("_should_delete") :
        /\ k > 1
        /\ \/ log[k - 1].call = "get_all_emails" /\ PositionOf(log[k].id) = 1
           \/ /\ log[k - 1].call \in {"_should_delete", "delete_email"}
              /\ ~ log[k - 1].raised
              /\ IsShouldDelete(log[k - 1]) => ~ log[k - 1].value
              /\ PositionOf(log[k].id) = PositionOf(log[k - 1].id) + 1
    /\ pc = "delete" <=>
        (log # <<>> /\ IsShouldDelete(log[Len(log)])
            /\ ~ log[Len(log)].raised /\ log[Len(log)].value)
    /\ cleaned_count <= Cardinality(EntriesOfCall("delete_email"))

\* a pass over three emails has ended after two deletions, the first of
\* which returned false, and an email in between that was kept
C21_Witness ==
    /\ pc = "done"
    /\ NoCallRaised
    /\ Len(emails) = 3
    /\ Cardinality(EntriesOfCall("delete_email")) = 2
    /\ cleaned_count = 1
    /\ \E d \in EntriesOfCall("delete_email") :
        ~ log[d].value /\ \E k \in EntriesOfCall("_should_delete") : k > d

(***************************************************************************)
(* Properties of the run cycle. The log holds the calls of the cycle under *)
(* way, or of the last one when pc = "done".                               *)
(***************************************************************************)
Entries(name, id) == {k \in DOMAIN log : log[k].call = name /\ log[k].id = id}
EntriesOf(name) == {k \in DOMAIN log : log[k].call = name}
EmailIds == {emails[i].id : i \in DOMAIN emails}

\* the rule of this name has notify = true
RuleNotifies(label) ==
    \E i \in Indices(label_configs) :
        /\ label_configs[i].name = label
        /\ "notify" \in DOMAIN label_configs[i]
        /\ label_configs[i].notify = TRUE

\* C14: when a run cycle has ended, its clean pass has enumerated the mail
\* store and has called delete_email for every message whose email
\* _should_delete answers true for.
C14_ProvidersSupplyGetAllEmails ==
    pc = "done" =>
        /\ GetAllEmailsReturned
        /\ \A i \in DOMAIN server :
            _should_delete(email_data_of(provider, server[i]), config, now) =>
                Entries("delete_email", server[i].id) # {}

\* C17: every send_notification call of the cycle is for an email that was
\* classified before, on account of a label of its classify result whose
\* rule has notify = true; there is at most one call per email and label;
\* and once the email is marked as processed there is one for each such
\* label.
C17_NotifyOncePerNotifyingLabel ==
    /\ \A n \in EntriesOf("send_notification") :
        /\ \E c \in Entries("classify", log[n].id) :
            /\ c < n
            /\ log[n].label \in SetOf(log[c].value)
        /\ RuleNotifies(log[n].label)
        /\ \A m \in Entries("send_notification", log[n].id) :
            log[m].label = log[n].label => m = n
    /\ \A p \in EntriesOf("mark_as_processed") :
        \A c \in Entries("classify", log[p].id) :
            /\ \A label \in {l \in SetOf(log[c].value) : RuleNotifies(l)} :
                \E n \in Entries("send_notification", log[p].id) : log[n].label = label
            /\ Cardinality(Entries("send_notification", log[p].id)) =
                  Cardinality({l \in SetOf(log[c].value) : RuleNotifies(l)})

C17_Witness ==
    /\ label_configs = TestLabelConfigs
    /\ \E p \in EntriesOf("mark_as_processed") :
        /\ \E c \in Entries("classify", log[p].id) : SetOf(log[c].value) = {"Important", "Work"}
        /\ Cardinality(Entries("send_notification", log[p].id)) = 1

\* C18: in a cycle, apply_labels for an email comes directly after its
\* classify call, and is made if and only if the labels are not empty; its
\* notifications come after both; get_all_emails, the first call of the
\* clean pass, is made at most once, after every unprocessed email has
\* been classified and marked, with no email handled after it; and a cycle
\* that has ended has made it once.
C18_CycleOrder ==
    /\ \A c \in EntriesOf("classify") :
        /\ Entries("classify", log[c].id) = {c}
        /\ IF log[c].value # <<>>
           THEN IF c < Len(log)
                THEN log[c + 1].call = "apply_labels" /\ log[c + 1].id = log[c].id
                ELSE pc = "apply_labels"
           ELSE Entries("apply_labels", log[c].id) = {}
    /\ \A a \in EntriesOf("apply_labels") :
        /\ a > 1
        /\ log[a - 1].call = "classify" /\ log[a - 1].id = log[a].id
        /\ Entries("apply_labels", log[a].id) = {a}
    /\ \A n \in EntriesOf("send_notification") :
        /\ \E c \in Entries("classify", log[n].id) : c < n
        /\ \A a \in Entries("apply_labels", log[n].id) : a < n
    /\ Cardinality(EntriesOf("get_all_emails")) <= 1
    /\ (pc \in {"clean", "except"} \/ EntriesOf("get_all_emails") # {}) =>
        \A id \in EmailIds :
            /\ Entries("classify", id) # {}
            /\ Entries("mark_as_processed", id) # {}
    /\ \A g \in EntriesOf("get_all_emails") :
        \A k \in DOMAIN log : k > g => log[k].call \in {"_should_delete", "delete_email"}
    /\ pc = "done" => Cardinality(EntriesOf("get_all_emails")) = 1

C18_Witness ==
    /\ pc = "done"
    /\ Len(emails) = 2
    /\ \E c \in EntriesOf("classify") : log[c].value = <<>>
    /\ EntriesOf("apply_labels") # {}
    /\ EntriesOf("send_notification") # {}
    /\ Cardinality(EntriesOf("get_all_emails")) = 1
(***************************************************************************)
(* Properties of the engines over several calls                            *)
(***************************************************************************)
\* two calls of the same method on the same email (and, for _should_delete,
\* at the same time) gave the same answer; classify answers are compared as
\* sets, list(set(...)) fixing no order
SameInputsSameResult ==
    \A i, j \in DOMAIN log :
        (log[i].call = log[j].call /\ log[i].email = log[j].email) =>
            IF log[i].call = "classify"
            THEN SetOf(log[i].value) = SetOf(log[j].value)
            ELSE log[i].now = log[j].now => log[i].value = log[j].value

\* a step leaves the rule list and the policy as they are, and a call
\* leaves the email dict it was given as it was
EngineFrame ==
    /\ label_configs' = label_configs
    /\ config' = config
    /\ log' # log => email' = log'[Len(log')].email /\ email' \in EngineEmails

C24_MarkedOnceAfterHandling ==
    /\ \A p \in EntriesOf("mark_as_processed") :
        /\ Entries("mark_as_processed", log[p].id) = {p}
        /\ \E c \in Entries("classify", log[p].id) : c < p
        /\ \A a \in Entries("apply_labels", log[p].id) : a < p
        /\ \A n \in Entries("send_notification", log[p].id) : n < p
        /\ p < Len(log) => log[p + 1].call \in {"classify", "get_all_emails"}
    /\ \A c \in EntriesOf("classify") :
        /\ c > 1
        /\ \/ log[c - 1].call = "get_unprocessed_emails"
           \/ log[c - 1].call = "mark_as_processed" /\ log[c - 1].id # log[c].id
        /\ LET i == Cardinality({k \in EntriesOf("classify") : k <= c})
           IN  i \in DOMAIN emails /\ log[c].id = emails[i].id
    /\ \A i \in DOMAIN emails :
        (i <= idx \/ pc \in {"clean", "except", "done"}) <=>
            Entries("mark_as_processed", emails[i].id) # {}

\* an email whose apply_labels call and whose notification both returned
\* false was marked as processed, and the next email was classified
C24_Witness ==
    \E p \in EntriesOf("mark_as_processed") :
        /\ \E a \in Entries("apply_labels", log[p].id) : ~ log[a].value
        /\ \E n \in Entries("send_notification", log[p].id) : ~ log[n].value
        /\ p < Len(log)
        /\ log[p + 1].call = "classify"
\* what a successful mark_as_processed leaves on a message: the label
\* Processed with Gmail, the flag \Seen with IMAP
MarkedAsProcessed(msg) ==
    IF provider = "gmail" THEN InList("Processed", msg.marks) ELSE ~ msg.unread

\* C23: an email that get_unprocessed_emails returned and that the cycle
\* has not gone through yet is not one that mark_as_processed succeeded
\* for before.
C23_ProcessedNotReturnedAgain ==
    \A i \in DOMAIN emails :
        i > idx => ~ MarkedAsProcessed(server[IndexOf(server, emails[i].id)])
====
